---- MODULE Spec2Model ----
(***************************************************************************)
(* Model of inline-fs-fixture (src/src/index.ts): defineIFFCreator and the  *)
(* fixture handles it returns (createIFF, addFixtures, fork, reset,         *)
(* writeFixtures, rmFixtures, rmRootDir) acting on a filesystem.            *)
(*                                                                          *)
(* The filesystem is one tree per root directory.  Root directories are     *)
(* disjoint (none lies inside another) and their parents always exist.      *)
(* One operation runs at a time; an operation is over when every task it    *)
(* started has settled.                                                     *)
(*                                                                          *)
(* Spec takes every operation as a whole, with every result its tasks'      *)
(* interleavings can leave.  SpecLineage follows the handles that descend   *)
(* from one createIFF.  SpecSteps follows the operations that write         *)
(* fixtures one I/O call at a time.                                         *)
(***************************************************************************)
EXTENDS Integers, Sequences, FiniteSets, TLC

VARIABLES
    disk,                   \* [Roots -> tree]: what is physically on disk
    iffs,                   \* the handles returned so far, in creation order
    env,                    \* host separator and the unixStylePath option
    generateRootDirCalls,   \* invocations of generateRootDir by the last operation
    last,                   \* the operation that ran last
    run                     \* the operation in flight, when its steps are followed

vars == <<disk, iffs, env, generateRootDirCalls, last, run>>

(***************************** bounds **************************************)
MaxDepth == 2             \* longest resolved relative path, in segments
MaxHandles == 2           \* handles created in one behaviour
MaxLineage == 3           \* handles of one family (SpecLineage)

Segs == {"a", "b"}
Contents == {"x", "y"}
Roots == {"R1", "R2"}
None == "none"

(***************************** sequences ***********************************)
Parent(p) == SubSeq(p, 1, Len(p) - 1)

IsPrefix(p, q) == Len(p) <= Len(q) /\ SubSeq(q, 1, Len(p)) = p

AllPaths == UNION {[1..n -> Segs] : n \in 0..MaxDepth}

(***************************** filesystem **********************************)
\* A tree gives every relative path "absent", "dir" or a file's content.
Absent == "absent"
IsDir == "dir"

EmptyTree == [p \in AllPaths |-> Absent]

IsFile(t, p) == t[p] \in Contents

WellFormed(t) ==
    \A p \in AllPaths : (p # <<>> /\ t[p] # Absent) => t[Parent(p)] = IsDir

\* fs.mkdir(p, {recursive: true}): every missing component is created;
\* fails when a component exists and is a file.
mkdir(t, p) ==
    IF \E q \in AllPaths : IsPrefix(q, p) /\ IsFile(t, q)
    THEN [tree |-> t, ok |-> FALSE]
    ELSE [tree |-> [q \in AllPaths |-> IF IsPrefix(q, p) THEN IsDir ELSE t[q]] @@ <<>>,
          ok |-> TRUE]

\* fs.writeFile(p, c): the parent must be a directory, p must not be one.
writeFile(t, p, c) ==
    IF p = <<>> \/ t[Parent(p)] # IsDir \/ t[p] = IsDir
    THEN [tree |-> t, ok |-> FALSE]
    ELSE [tree |-> [t EXCEPT ![p] = c], ok |-> TRUE]

\* fs.rm(p, {recursive: true, force: true}): never fails on a missing target.
rm(t, p) == [q \in AllPaths |-> IF IsPrefix(p, q) THEN Absent ELSE t[q]] @@ <<>>

\* fs.readdir(p): the names directly under p.
readdir(t, p) == {q \in AllPaths : q # <<>> /\ Parent(q) = p /\ t[q] # Absent}

(***************************** path strings ********************************)
\* A path string is a sequence of tokens: names and separators.
Seps == {"/", "\\"}

\* slash(): every backslash becomes a forward slash.
slash(s) == [i \in DOMAIN s |-> IF s[i] = "\\" THEN "/" ELSE s[i]]

\* path.normalize on the host: win32 turns every "/" into "\\"; posix keeps
\* the string (a backslash is no separator there).
normalize(sep, s) ==
    IF sep = "\\" THEN [i \in DOMAIN s |-> IF s[i] = "/" THEN "\\" ELSE s[i]] ELSE s

RECURSIVE appendSegments(_, _, _)
appendSegments(sep, s, segs) ==
    IF segs = <<>> THEN s
    ELSE appendSegments(sep, s \o <<sep, Head(segs)>>, Tail(segs))

\* node:path join(root, ...segments) on a host whose separator is sep.
join(sep, root, segs) == appendSegments(sep, normalize(sep, root), segs)

\* The string generateRootDir (or overrideRootDir) gives for root r.
RootString(sep, r) == <<sep, r>>

(***************************** directory specifications ********************)
\* A file leaf, or a directory node: an ordered mapping from keys (one or
\* more segments, 'a/b' is <<"a", "b">>) to items.
File(c) == [type |-> "file", content |-> c, entries |-> <<>>]
Dir(es) == [type |-> "dir", content |-> None, entries |-> es]

E(k, item) == [key |-> k, item |-> item]

Directories ==
    { Dir(<<>>),
      Dir(<<E(<<"a">>, File("x"))>>),
      Dir(<<E(<<"b">>, File("x")), E(<<"a">>, File("y"))>>),
      Dir(<<E(<<"b", "b">>, File("y"))>>),
      Dir(<<E(<<"b">>, Dir(<<E(<<"a">>, File("x"))>>)), E(<<"b", "a">>, File("y"))>>) }

(***************************** path tables *********************************)
\* An ordered mapping (a JavaScript object): a sequence of entries with
\* distinct keys, in insertion order.
Keys(table) == {table[i].key : i \in DOMAIN table}

TableKeys(table) == [i \in DOMAIN table |-> table[i].key]

Lookup(table, k) == (CHOOSE i \in DOMAIN table : table[i].key = k)

Value(table, k) == table[Lookup(table, k)].value

\* obj[k] = v: an existing key keeps its place, a new key goes last.
TableSet(table, k, v) ==
    IF k \in Keys(table)
    THEN [table EXCEPT ![Lookup(table, k)] = [key |-> k, value |-> v]]
    ELSE Append(table, [key |-> k, value |-> v])

\* {...a, ...b}
RECURSIVE Spread(_, _)
Spread(a, b) ==
    IF b = <<>> THEN a
    ELSE Spread(TableSet(a, Head(b).key, Head(b).value), Tail(b))

\* The string exposed for relative path k under root string root.
exposed(sep, unixStylePath, root, k) ==
    IF unixStylePath THEN slash(join(sep, root, k)) ELSE join(sep, root, k)

\* getPaths(directory, rootDir, unixStylePath): one entry for every node, and
\* for every intermediate directory a multi-segment key implies, parents
\* first, in the declared key order.
RECURSIVE getPathsFrom(_, _, _, _, _, _)
RECURSIVE withParents(_, _, _, _, _, _)
withParents(sep, unixStylePath, root, table, k, n) ==
    IF n > Len(k) THEN table
    ELSE withParents(sep, unixStylePath, root,
             TableSet(table, SubSeq(k, 1, n),
                      exposed(sep, unixStylePath, root, SubSeq(k, 1, n))),
             k, n + 1)

getPathsFrom(sep, unixStylePath, root, entries, prefix, table) ==
    IF entries = <<>> THEN table
    ELSE LET e == Head(entries)
             k == prefix \o e.key
             own == withParents(sep, unixStylePath, root, table, k, Len(prefix) + 1)
             below == IF e.item.type = "dir"
                      THEN getPathsFrom(sep, unixStylePath, root, e.item.entries, k, own)
                      ELSE own
         IN getPathsFrom(sep, unixStylePath, root, Tail(entries), prefix, below)

getPaths(sep, unixStylePath, directory, root) ==
    getPathsFrom(sep, unixStylePath, root, directory.entries, <<>>, <<>>)

\* changeRootDirOfPaths(paths, rootDir, unixStylePath): the same keys, every
\* value moved under rootDir.
changeRootDirOfPaths(sep, unixStylePath, paths, root) ==
    [i \in DOMAIN paths |->
        [key |-> paths[i].key,
         value |-> exposed(sep, unixStylePath, root, paths[i].key)]]

\* Where a path string lands on the host: the root it names and the
\* relative path below it (win32 takes both separators, posix only "/").
resolve(sep, s) ==
    [root |-> s[2],
     path |-> [i \in 1..((Len(s) - 2) \div 2) |-> s[2 * i + 2]],
     valid |-> \A i \in DOMAIN s : (i % 2 = 1) => (s[i] = sep \/ (sep = "\\" /\ s[i] = "/"))]

(***************************** materializer ********************************)
\* createIFFImpl(directory, baseDir).  A directory node is a task that makes
\* its directory and then starts one task per entry, all concurrently; a
\* file leaf is a task that makes the parent of a multi-segment key and
\* then writes the file.  A task that fails stops; the others go on.
DirTask(node, at) == [at |-> at, node |-> node, pc |-> "mkdir"]

FileTask(node, at, multi) ==
    [at |-> at, node |-> node, pc |-> IF multi THEN "mkdir" ELSE "write"]

spawn(node, base) ==
    [i \in DOMAIN node.entries |->
        LET e == node.entries[i]
        IN IF e.item.type = "dir"
           THEN DirTask(e.item, base \o e.key)
           ELSE FileTask(e.item, base \o e.key, Len(e.key) > 1)]

Without(pool, i) == SubSeq(pool, 1, i - 1) \o SubSeq(pool, i + 1, Len(pool))

\* Variant: a directory node starts the tasks of its entries first and
\* makes its directory afterwards.
taskStepSpawnsFirst(pool, tree, ok, i) ==
    LET task == pool[i]
        rest == Without(pool, i)
    IN IF task.node.type = "dir" /\ task.node.entries # <<>>
       THEN [pool |-> rest \o spawn(task.node, task.at) \o <<DirTask(Dir(<<>>), task.at)>>,
             tree |-> tree, ok |-> ok]
       ELSE IF task.node.type = "dir"
       THEN LET r == mkdir(tree, task.at)
            IN [pool |-> rest, tree |-> r.tree, ok |-> ok /\ r.ok]
       ELSE IF task.pc = "mkdir"
       THEN LET r == mkdir(tree, Parent(task.at))
            IN [pool |-> IF r.ok THEN rest \o <<[task EXCEPT !.pc = "write"]>> ELSE rest,
                tree |-> r.tree, ok |-> ok /\ r.ok]
       ELSE LET r == writeFile(tree, task.at, task.node.content)
            IN [pool |-> rest, tree |-> r.tree, ok |-> ok /\ r.ok]

\* Variant: a call that fails drops the tasks still pending.
taskStepFailFast(pool, tree, ok, i) ==
    LET task == pool[i]
        rest == Without(pool, i)
    IN IF task.node.type = "dir"
       THEN LET r == mkdir(tree, task.at)
            IN [pool |-> IF r.ok THEN rest \o spawn(task.node, task.at) ELSE <<>>,
                tree |-> r.tree, ok |-> ok /\ r.ok]
       ELSE IF task.pc = "mkdir"
       THEN LET r == mkdir(tree, Parent(task.at))
            IN [pool |-> IF r.ok THEN rest \o <<[task EXCEPT !.pc = "write"]>> ELSE <<>>,
                tree |-> r.tree, ok |-> ok /\ r.ok]
       ELSE LET r == writeFile(tree, task.at, task.node.content)
            IN [pool |-> IF r.ok THEN rest ELSE <<>>, tree |-> r.tree, ok |-> ok /\ r.ok]

\* One I/O call of task i: the pool, the tree and the success flag after it.
taskStep(pool, tree, ok, i) ==
    LET task == pool[i]
        rest == Without(pool, i)
    IN IF task.node.type = "dir"
       THEN LET r == mkdir(tree, task.at)
            IN [pool |-> IF r.ok THEN rest \o spawn(task.node, task.at) ELSE rest,
                tree |-> r.tree, ok |-> ok /\ r.ok]
       ELSE IF task.pc = "mkdir"
       THEN LET r == mkdir(tree, Parent(task.at))
            IN [pool |-> IF r.ok THEN rest \o <<[task EXCEPT !.pc = "write"]>> ELSE rest,
                tree |-> r.tree, ok |-> ok /\ r.ok]
       ELSE LET r == writeFile(tree, task.at, task.node.content)
            IN [pool |-> rest, tree |-> r.tree, ok |-> ok /\ r.ok]

\* Every result the interleavings of the tasks can leave.
RECURSIVE settle(_, _, _)
settle(pool, tree, ok) ==
    IF pool = <<>> THEN {[tree |-> tree, ok |-> ok]}
    ELSE UNION { LET n == taskStep(pool, tree, ok, i) IN settle(n.pool, n.tree, n.ok)
                 : i \in DOMAIN pool }

createIFFImpl(directory, tree) == settle(<<DirTask(directory, <<>>)>>, tree, TRUE)

(***************************** fs.cp ***************************************)
\* fs.cp(src, dest, {recursive: true, mode: COPYFILE_FICLONE}): entries are
\* copied one after the other in the order the directory lists them, files
\* overwrite files, and a directory meeting a file (either way) fails there.
RECURSIVE cpItem(_, _, _)
RECURSIVE cpEntries(_, _, _)
cpEntries(src, tree, todo) ==
    IF todo = {} THEN {[tree |-> tree, ok |-> TRUE]}
    ELSE UNION { UNION { IF r.ok THEN cpEntries(src, r.tree, todo \ {q}) ELSE {r}
                         : r \in cpItem(src, tree, q) }
                 : q \in todo }

cpItem(src, dest, q) ==
    IF src[q] = IsDir
    THEN IF IsFile(dest, q) THEN {[tree |-> dest, ok |-> FALSE]}
         ELSE LET made == [dest EXCEPT ![q] = IsDir]
              IN cpEntries(src, made, readdir(src, q))
    ELSE IF dest[q] = IsDir THEN {[tree |-> dest, ok |-> FALSE]}
         ELSE {[tree |-> [dest EXCEPT ![q] = src[q]], ok |-> TRUE]}

cp(src, dest) ==
    IF src[<<>>] = Absent THEN {[tree |-> dest, ok |-> FALSE]}
    ELSE cpItem(src, dest, <<>>)

(***************************** handles *************************************)
\* A handle (CreateIFFResult): root is the closure's rootDir, rootDir and
\* paths are what the handle exposes, directory and prev are the closure's
\* directory and __INTERNAL__prevIFF (0: none).
rawRootDir(iff) == RootString(env.sep, iff.root)

\* Variant: generateRootDir is invoked before the override is looked at.
rootDirForEager(override) ==
    {[root |-> IF override # None THEN override ELSE g, calls |-> 1] : g \in Roots}

\* options?.overrideRootDir ?? defineIFFCreatorOptions.generateRootDir():
\* the root used and the number of generateRootDir invocations it took.
\* generateRootDir is the caller's function: it may return any root.
rootDirFor(override) ==
    IF override # None THEN {[root |-> override, calls |-> 0]}
    ELSE {[root |-> g, calls |-> 1] : g \in Roots}

\* Variant: the previous handle's paths are left out.
mergedPathsOwnOnly(prevPaths, directory, root) ==
    getPaths(env.sep, env.unixStylePath, directory, RootString(env.sep, root))

\* Variant: the new directory's own paths are left out.
mergedPathsPrevOnly(prevPaths, directory, root) ==
    changeRootDirOfPaths(env.sep, env.unixStylePath, prevPaths, RootString(env.sep, root))

\* Variant: the previous handle's paths are spread as they are, unmoved.
mergedPathsUnmoved(prevPaths, directory, root) ==
    Spread(prevPaths,
           getPaths(env.sep, env.unixStylePath, directory, RootString(env.sep, root)))

\* The paths of a new handle: the previous handle's paths moved under the
\* new root, then the new directory's own paths.
mergedPaths(prevPaths, directory, root) ==
    Spread(changeRootDirOfPaths(env.sep, env.unixStylePath, prevPaths, RootString(env.sep, root)),
           getPaths(env.sep, env.unixStylePath, directory, RootString(env.sep, root)))

\* Variant: only the previous handle's own directory is carried over, not
\* the paths it inherited.
newIFFParentOnly(hs, directory, root, prev) ==
    [root |-> root,
     rootDir |-> IF env.unixStylePath THEN slash(RootString(env.sep, root))
                 ELSE RootString(env.sep, root),
     paths |-> mergedPaths(IF prev # 0
                           THEN getPaths(env.sep, env.unixStylePath, hs[prev].directory,
                                         rawRootDir(hs[prev]))
                           ELSE <<>>, directory, root),
     directory |-> directory,
     prev |-> prev]

\* The handle createIFF builds: rootDir, paths and what its closure holds.
newIFF(hs, directory, root, prev) ==
    [root |-> root,
     rootDir |-> IF env.unixStylePath THEN slash(RootString(env.sep, root))
                 ELSE RootString(env.sep, root),
     paths |-> mergedPaths(IF prev # 0 THEN hs[prev].paths ELSE <<>>, directory, root),
     directory |-> directory,
     prev |-> prev]

\* The generations of handle h, oldest first: h and the handles reached
\* through __INTERNAL__prevIFF.
RECURSIVE Lineage(_, _)
Lineage(hs, h) == IF h = 0 THEN <<>> ELSE Append(Lineage(hs, hs[h].prev), h)

\* iff.join(...paths)
iffJoin(iff, segs) == exposed(env.sep, env.unixStylePath, rawRootDir(iff), segs)

\* rm(path, {recursive: true, force: true}) on the disk.
rmAt(d, s) ==
    LET w == resolve(env.sep, s)
    IN IF w.valid /\ w.root \in Roots THEN [d EXCEPT ![w.root] = rm(@, w.path)] ELSE d

\* Variant: what is under the root directory is deleted, the directory stays.
rmRootDirKeepsDir(iff, d) ==
    IF d[iff.root][<<>>] # IsDir THEN d
    ELSE [d EXCEPT ![iff.root] = [EmptyTree EXCEPT ![<<>>] = IsDir]]

\* iff.rmRootDir()
rmRootDir(iff, d) == rmAt(d, rawRootDir(iff))

\* iff.rmFixtures(): readdir fails on a missing root; every entry listed is
\* then removed through iff.join.
RECURSIVE rmEach(_, _, _)
rmEach(iff, d, files) ==
    IF files = {} THEN d
    ELSE LET f == CHOOSE f \in files : TRUE
         IN rmEach(iff, rmAt(d, iffJoin(iff, f)), files \ {f})

\* Variant: the entries deleted are those the handle's paths name, not
\* those the root directory lists.
rmFixturesOfPaths(iff, d) ==
    IF d[iff.root][<<>>] # IsDir THEN [disk |-> d, ok |-> FALSE]
    ELSE [disk |-> rmEach(iff, d, {k \in Keys(iff.paths) : Len(k) = 1}), ok |-> TRUE]

\* Variant: a root directory that cannot be listed counts as having no
\* entries.
rmFixturesTolerant(iff, d) ==
    IF d[iff.root][<<>>] # IsDir THEN [disk |-> d, ok |-> TRUE]
    ELSE [disk |-> rmEach(iff, d, readdir(d[iff.root], <<>>)), ok |-> TRUE]

rmFixtures(iff, d) ==
    IF d[iff.root][<<>>] # IsDir THEN [disk |-> d, ok |-> FALSE]
    ELSE [disk |-> rmEach(iff, d, readdir(d[iff.root], <<>>)), ok |-> TRUE]

\* Variant: the previous handle writes its fixtures onto its own root.
RECURSIVE writeFixturesOnOwnRoots(_, _, _, _)
writeFixturesOnOwnRoots(hs, h, override, d) ==
    LET target == IF override # None THEN override ELSE hs[h].root
        before == IF hs[h].prev # 0 THEN writeFixturesOnOwnRoots(hs, hs[h].prev, None, d)
                  ELSE {[disk |-> d, ok |-> TRUE]}
    IN UNION { IF b.ok
               THEN {[disk |-> [b.disk EXCEPT ![target] = o.tree], ok |-> o.ok]
                     : o \in createIFFImpl(hs[h].directory, b.disk[target])}
               ELSE {b}
               : b \in before }

\* iff.writeFixtures(__INTERNAL__overrideRootDir): the previous handle's
\* fixtures first, onto the same root, then this handle's directory.
RECURSIVE writeFixtures(_, _, _, _)
writeFixtures(hs, h, override, d) ==
    LET target == IF override # None THEN override ELSE hs[h].root
        before == IF hs[h].prev # 0 THEN writeFixtures(hs, hs[h].prev, target, d)
                  ELSE {[disk |-> d, ok |-> TRUE]}
    IN UNION { IF b.ok
               THEN {[disk |-> [b.disk EXCEPT ![target] = o.tree], ok |-> o.ok]
                     : o \in createIFFImpl(hs[h].directory, b.disk[target])}
               ELSE {b}
               : b \in before }

\* Variant: the handle is returned without its fixtures being written.
createIFFUnwritten(hs, directory, override, prev, d) ==
    {[disk |-> d, ok |-> TRUE, iff |-> newIFF(hs, directory, c.root, prev), calls |-> c.calls]
     : c \in rootDirFor(override)}

\* createIFF(directory, options, __INTERNAL__prevIFF): the handle is built,
\* its fixtures are written, and it is returned when the writing succeeded.
\* calls counts the generateRootDir invocations of the call.
createIFF(hs, directory, override, prev, d) ==
    UNION { LET iff == newIFF(hs, directory, c.root, prev)
            IN {[disk |-> o.disk, ok |-> o.ok, iff |-> iff, calls |-> c.calls]
                : o \in writeFixtures(Append(hs, iff), Len(hs) + 1, None, d)}
            : c \in rootDirFor(override) }

\* iff.addFixtures(additionalDirectory)
addFixtures(hs, h, additionalDirectory, d) ==
    createIFF(hs, additionalDirectory, hs[h].root, h, d)

\* Variant: the copy goes from the new root into the old one.
forkCopyBack(hs, h, additionalDirectory, override, d) ==
    UNION { IF c.root = hs[h].root
            THEN {[disk |-> d, ok |-> FALSE, iff |-> hs[h], calls |-> c.calls]}
            ELSE UNION { IF ~o.ok THEN {[o EXCEPT !.calls = c.calls + o.calls]}
                         ELSE {[disk |-> [o.disk EXCEPT ![hs[h].root] = r.tree],
                                ok |-> r.ok, iff |-> o.iff, calls |-> c.calls + o.calls]
                               : r \in cp(o.disk[c.root], o.disk[hs[h].root])}
                         : o \in createIFF(hs, additionalDirectory, c.root, h, d) }
            : c \in rootDirFor(override) }

\* Variant: the new root is not compared with the handle's own.
forkUnchecked(hs, h, additionalDirectory, override, d) ==
    UNION { UNION { IF ~o.ok THEN {[o EXCEPT !.calls = c.calls + o.calls]}
                    ELSE {[disk |-> [o.disk EXCEPT ![c.root] = r.tree],
                           ok |-> r.ok, iff |-> o.iff, calls |-> c.calls + o.calls]
                          : r \in cp(o.disk[hs[h].root], o.disk[c.root])}
                    : o \in createIFF(hs, additionalDirectory, c.root, h, d) }
            : c \in rootDirFor(override) }

\* iff.fork(additionalDirectory, forkOptions): a new root equal to the
\* handle's own is refused before anything is done; otherwise the new handle
\* is created (which writes its fixtures) and then the old root is copied.
fork(hs, h, additionalDirectory, override, d) ==
    UNION { IF c.root = hs[h].root
            THEN {[disk |-> d, ok |-> FALSE, iff |-> hs[h], calls |-> c.calls]}
            ELSE UNION { IF ~o.ok THEN {[o EXCEPT !.calls = c.calls + o.calls]}
                         ELSE {[disk |-> [o.disk EXCEPT ![c.root] = r.tree],
                                ok |-> r.ok, iff |-> o.iff, calls |-> c.calls + o.calls]
                               : r \in cp(o.disk[hs[h].root], o.disk[c.root])}
                         : o \in createIFF(hs, additionalDirectory, c.root, h, d) }
            : c \in rootDirFor(override) }

\* Variant: the root directory is not deleted first.
resetKeepsRoot(hs, h, d) == writeFixtures(hs, h, None, d)

\* iff.reset()
reset(hs, h, d) == writeFixtures(hs, h, None, rmRootDir(hs[h], d))

(***************************** the state machine ***************************)
Handles == DOMAIN iffs

\* fresh: the target root was absent or empty when the operation began;
\* existed: it was a directory then.
Op(op, h, ok, root, override, fresh, existed) ==
    [op |-> op, h |-> h, ok |-> ok, root |-> root, override |-> override,
     fresh |-> fresh, existed |-> existed]

IsEmpty(tree) == readdir(tree, <<>>) = {}

\* No operation is in flight.
Idle ==
    [op |-> "idle", h |-> 0, root |-> None, override |-> FALSE, iff |-> <<>>,
     stages |-> <<>>, ok |-> TRUE, calls |-> 0, fresh |-> FALSE, existed |-> FALSE]

Init ==
    /\ disk = [r \in Roots |-> EmptyTree]
    /\ iffs = <<>>
    /\ env \in [sep : Seps, unixStylePath : BOOLEAN]
    /\ generateRootDirCalls = 0
    /\ last = Op("init", 0, TRUE, None, FALSE, FALSE, FALSE)
    /\ run = Idle

\* An operation that returns a new handle when it succeeds.
Created(op, h, override, out) ==
    /\ disk' = out.disk
    /\ iffs' = IF out.ok THEN Append(iffs, out.iff) ELSE iffs
    /\ generateRootDirCalls' = out.calls
    /\ last' = Op(op, h, out.ok, out.iff.root, override # None,
                  IsEmpty(disk[out.iff.root]), disk[out.iff.root][<<>>] = IsDir)
    /\ UNCHANGED <<env, run>>

\* An operation of a handle that returns nothing.
Ran(op, h, out) ==
    /\ disk' = out.disk
    /\ generateRootDirCalls' = 0
    /\ last' = Op(op, h, out.ok, iffs[h].root, FALSE,
                  IsEmpty(disk[iffs[h].root]), disk[iffs[h].root][<<>>] = IsDir)
    /\ UNCHANGED <<iffs, env, run>>

CreateIFF ==
    \E directory \in Directories, override \in Roots \cup {None} :
        /\ Len(iffs) < MaxHandles
        /\ \E out \in createIFF(iffs, directory, override, 0, disk) :
               Created("createIFF", 0, override, out)

AddFixtures ==
    \E h \in Handles, additionalDirectory \in Directories :
        /\ Len(iffs) < MaxHandles
        /\ \E out \in addFixtures(iffs, h, additionalDirectory, disk) :
               Created("addFixtures", h, None, out)

Fork ==
    \E h \in Handles, additionalDirectory \in Directories, override \in Roots \cup {None} :
        /\ Len(iffs) < MaxHandles
        /\ \E out \in fork(iffs, h, additionalDirectory, override, disk) :
               Created("fork", h, override, out)

Reset ==
    \E h \in Handles : \E out \in reset(iffs, h, disk) : Ran("reset", h, out)

WriteFixtures ==
    \E h \in Handles : \E out \in writeFixtures(iffs, h, None, disk) : Ran("writeFixtures", h, out)

RmFixtures ==
    \E h \in Handles : Ran("rmFixtures", h, rmFixtures(iffs[h], disk))

RmRootDir ==
    \E h \in Handles : Ran("rmRootDir", h, [disk |-> rmRootDir(iffs[h], disk), ok |-> TRUE])

Next ==
    \/ CreateIFF
    \/ AddFixtures
    \/ Fork
    \/ Reset
    \/ WriteFixtures
    \/ RmFixtures
    \/ RmRootDir

Spec == Init /\ [][Next]_vars

TypeOK ==
    /\ \A r \in Roots : WellFormed(disk[r])
    /\ \A h \in Handles : iffs[h].prev < h

(***************************** one family of handles ************************)
\* The handles that descend from a single createIFF, up to MaxLineage of
\* them: the same operations as above, each taken as a whole.
FirstCreateIFF ==
    \E directory \in Directories, override \in Roots \cup {None} :
        /\ Len(iffs) = 0
        /\ \E out \in createIFF(iffs, directory, override, 0, disk) :
               Created("createIFF", 0, override, out)

NextAddFixtures ==
    \E h \in Handles, additionalDirectory \in Directories :
        /\ Len(iffs) < MaxLineage
        /\ \E out \in addFixtures(iffs, h, additionalDirectory, disk) :
               Created("addFixtures", h, None, out)

NextFork ==
    \E h \in Handles, additionalDirectory \in Directories, override \in Roots \cup {None} :
        /\ Len(iffs) < MaxLineage
        /\ \E out \in fork(iffs, h, additionalDirectory, override, disk) :
               Created("fork", h, override, out)

NextLineage ==
    \/ FirstCreateIFF
    \/ NextAddFixtures
    \/ NextFork

SpecLineage == Init /\ [][NextLineage]_vars

(***************************** the operations, call by call *****************)
\* The operations that write fixtures (createIFF, addFixtures, fork,
\* writeFixtures, reset), followed one I/O call at a time.  An operation in
\* flight is the sequence of the calls it awaits one after the other, its
\* stages: createIFFImpl(directory, root) for a generation ("impl", pool
\* holding the tasks that have not settled), cp(from, root) ("cp") or
\* rm(root) ("rm").
Stage(kind, directory, from, root) ==
    [kind |-> kind, directory |-> directory, from |-> from, root |-> root,
     started |-> FALSE, pool |-> <<>>]

\* writeFixtures(override) of handle h: one createIFFImpl per generation of
\* its lineage, the oldest first, all onto target.
writeFixturesStages(hs, h, target) ==
    [i \in DOMAIN Lineage(hs, h) |->
        Stage("impl", hs[Lineage(hs, h)[i]].directory, target, target)]

done(stage) == stage.started /\ stage.pool = <<>>

\* Variant: a stage starts as soon as the stages before it have started.
canStartUnawaited(r, s) ==
    /\ r.ok /\ ~r.stages[s].started
    /\ \A t \in 1..(s - 1) : r.stages[t].started

\* await: a stage starts when every stage before it has resolved.
canStart(r, s) ==
    /\ r.ok /\ ~r.stages[s].started
    /\ \A t \in 1..(s - 1) : done(r.stages[t])

\* The operation settles: nothing it started is pending, and it has failed
\* or started all its stages.
Over(r) ==
    /\ \A s \in DOMAIN r.stages : r.stages[s].started => r.stages[s].pool = <<>>
    /\ ~r.ok \/ \A s \in DOMAIN r.stages : r.stages[s].started

Call(op, h, root, override, iff, stages, ok, calls) ==
    /\ run.op = "idle"
    /\ run' = [op |-> op, h |-> h, root |-> root, override |-> override, iff |-> iff,
               stages |-> stages, ok |-> ok, calls |-> calls,
               fresh |-> IsEmpty(disk[root]), existed |-> disk[root][<<>>] = IsDir]
    /\ UNCHANGED <<disk, iffs, env, generateRootDirCalls, last>>

CallCreateIFF ==
    \E directory \in Directories, override \in Roots \cup {None} :
        /\ Len(iffs) < MaxHandles
        /\ \E c \in rootDirFor(override) :
               LET iff == newIFF(iffs, directory, c.root, 0)
               IN Call("createIFF", 0, c.root, override # None, <<iff>>,
                       writeFixturesStages(Append(iffs, iff), Len(iffs) + 1, c.root),
                       TRUE, c.calls)

CallAddFixtures ==
    \E h \in Handles, additionalDirectory \in Directories :
        /\ Len(iffs) < MaxHandles
        /\ LET iff == newIFF(iffs, additionalDirectory, iffs[h].root, h)
           IN Call("addFixtures", h, iffs[h].root, FALSE, <<iff>>,
                   writeFixturesStages(Append(iffs, iff), Len(iffs) + 1, iffs[h].root),
                   TRUE, 0)

CallFork ==
    \E h \in Handles, additionalDirectory \in Directories, override \in Roots \cup {None} :
        /\ Len(iffs) < MaxHandles
        /\ \E c \in rootDirFor(override) :
               IF c.root = iffs[h].root
               THEN Call("fork", h, c.root, override # None, <<>>, <<>>, FALSE, c.calls)
               ELSE LET iff == newIFF(iffs, additionalDirectory, c.root, h)
                    IN Call("fork", h, c.root, override # None, <<iff>>,
                            writeFixturesStages(Append(iffs, iff), Len(iffs) + 1, c.root)
                                \o <<Stage("cp", Dir(<<>>), iffs[h].root, c.root)>>,
                            TRUE, c.calls)

CallWriteFixtures ==
    \E h \in Handles :
        Call("writeFixtures", h, iffs[h].root, FALSE, <<>>,
             writeFixturesStages(iffs, h, iffs[h].root), TRUE, 0)

CallReset ==
    \E h \in Handles :
        Call("reset", h, iffs[h].root, FALSE, <<>>,
             <<Stage("rm", Dir(<<>>), iffs[h].root, iffs[h].root)>>
                 \o writeFixturesStages(iffs, h, iffs[h].root),
             TRUE, 0)

\* createIFFImpl(directory, root) is called: its root task is started.
StartImpl ==
    \E s \in DOMAIN run.stages :
        /\ run.stages[s].kind = "impl" /\ canStart(run, s)
        /\ run' = [run EXCEPT !.stages[s].started = TRUE,
                              !.stages[s].pool = <<DirTask(run.stages[s].directory, <<>>)>>]
        /\ UNCHANGED <<disk, iffs, env, generateRootDirCalls, last>>

\* One task of a materialization in flight makes its next I/O call.
ImplStep ==
    \E s \in DOMAIN run.stages :
        \E i \in DOMAIN run.stages[s].pool :
            LET stage == run.stages[s]
                n == taskStep(stage.pool, disk[stage.root], run.ok, i)
            IN /\ disk' = [disk EXCEPT ![stage.root] = n.tree]
               /\ run' = [run EXCEPT !.stages[s].pool = n.pool, !.ok = n.ok]
               /\ UNCHANGED <<iffs, env, generateRootDirCalls, last>>

CpStep ==
    \E s \in DOMAIN run.stages :
        /\ run.stages[s].kind = "cp" /\ canStart(run, s)
        /\ \E r \in cp(disk[run.stages[s].from], disk[run.stages[s].root]) :
               /\ disk' = [disk EXCEPT ![run.stages[s].root] = r.tree]
               /\ run' = [run EXCEPT !.stages[s].started = TRUE, !.ok = r.ok]
        /\ UNCHANGED <<iffs, env, generateRootDirCalls, last>>

RmStep ==
    \E s \in DOMAIN run.stages :
        /\ run.stages[s].kind = "rm" /\ canStart(run, s)
        /\ disk' = rmRootDir(iffs[run.h], disk)
        /\ run' = [run EXCEPT !.stages[s].started = TRUE]
        /\ UNCHANGED <<iffs, env, generateRootDirCalls, last>>

\* The operation's promise settles: a handle it built is returned when it
\* resolved.
Return ==
    /\ run.op # "idle" /\ Over(run)
    /\ iffs' = IF run.ok THEN iffs \o run.iff ELSE iffs
    /\ generateRootDirCalls' = run.calls
    /\ last' = Op(run.op, run.h, run.ok, run.root, run.override, run.fresh, run.existed)
    /\ run' = Idle
    /\ UNCHANGED <<disk, env>>

NextSteps ==
    \/ CallCreateIFF
    \/ CallAddFixtures
    \/ CallFork
    \/ CallWriteFixtures
    \/ CallReset
    \/ StartImpl
    \/ ImplStep
    \/ CpStep
    \/ RmStep
    \/ Return

SpecSteps == Init /\ [][NextSteps]_vars

(***************************** what a specification declares ***************)
Range(seq) == {seq[i] : i \in DOMAIN seq}

\* The proper prefixes of prefix \o key that are longer than prefix.
Between(prefix, key) ==
    {prefix \o SubSeq(key, 1, n) : n \in 1..(Len(key) - 1)}

\* <<path, content>> for every file leaf below node.
RECURSIVE DeclaredLeaves(_, _)
DeclaredLeaves(node, prefix) ==
    UNION { IF e.item.type = "file"
            THEN {<<prefix \o e.key, e.item.content>>}
            ELSE DeclaredLeaves(e.item, prefix \o e.key)
            : e \in Range(node.entries) }

\* The path of every directory node below node and of every intermediate
\* directory a multi-segment key implies.
RECURSIVE DeclaredDirs(_, _)
DeclaredDirs(node, prefix) ==
    UNION { Between(prefix, e.key) \cup
            (IF e.item.type = "dir"
             THEN {prefix \o e.key} \cup DeclaredDirs(e.item, prefix \o e.key)
             ELSE {})
            : e \in Range(node.entries) }

LeafPaths(directory) == {l[1] : l \in DeclaredLeaves(directory, <<>>)}

ContentsAt(directory, p) == {l[2] : l \in {m \in DeclaredLeaves(directory, <<>>) : m[1] = p}}

DeclaredPaths(directory) == LeafPaths(directory) \cup DeclaredDirs(directory, <<>>)

\* Every path directory declares is in tree with its type and a content
\* directory declares for it.
Materialized(directory, tree) ==
    /\ tree[<<>>] = IsDir
    /\ \A p \in DeclaredDirs(directory, <<>>) : tree[p] = IsDir
    /\ \A p \in LeafPaths(directory) : tree[p] \in ContentsAt(directory, p)

\* The handle the last operation returned, and the one it was called on.
Returned == iffs[Len(iffs)]

Source == iffs[last.h]

Creators == {"createIFF", "addFixtures", "fork"}

\* No two keys of the specification give one path two contents.
SinglyDeclared(directory) ==
    \A p \in LeafPaths(directory) : Cardinality(ContentsAt(directory, p)) = 1

(***************************** claims **************************************)

\* C1: after createIFF(S) resolves on a root that was absent or empty, every
\* file leaf, directory node and intermediate directory S declares exists
\* under the root with its type, and every file holds a content S declares
\* for its path.
C1_CreateMaterializes ==
    (last.op = "createIFF" /\ last.ok /\ last.fresh)
        => Materialized(Returned.directory, disk[last.root])

C1_Witness ==
    /\ last.op = "createIFF" /\ last.ok /\ last.fresh
    /\ DeclaredDirs(Returned.directory, <<>>) # {}
    /\ \E p \in LeafPaths(Returned.directory) : Len(p) = 2 /\ disk[last.root][p] = "x"

\* C2: when h.fork(extra) resolves, the new root holds every file that was
\* under h's root at fork time and that extra does not declare, with the
\* same content, and every file extra declares with the content extra
\* declares for it (extra wins where both have the path).  Stated for an
\* extra that gives every path one content.
C2_ForkExtraWins ==
    [][(last'.op = "fork" /\ last'.ok /\ SinglyDeclared(iffs'[Len(iffs')].directory)) =>
         LET new == iffs'[Len(iffs')]
             old == disk[iffs[last'.h].root]
         IN /\ \A p \in AllPaths \ LeafPaths(new.directory) :
                   IsFile(old, p) => disk'[new.root][p] = old[p]
            /\ \A p \in LeafPaths(new.directory) :
                   disk'[new.root][p] \in ContentsAt(new.directory, p)]_vars

\* C3: a fork to a root other than the handle's own leaves the tree under
\* the handle's root exactly as it was before the call.
C3_ForkKeepsSource ==
    [][(last'.op = "fork" /\ last'.root # iffs[last'.h].root) =>
         disk'[iffs[last'.h].root] = disk[iffs[last'.h].root]]_vars

C3_Witness ==
    /\ last.op = "fork" /\ last.ok
    /\ ~IsEmpty(disk[Source.root])
    /\ LeafPaths(Returned.directory) # {}

\* C4: a fork whose new root (overridden or generated) equals the handle's
\* root fails, and the disk and the handles are as before the call.
C4_SelfForkRejected ==
    [][(last'.op = "fork" /\ last'.root = iffs[last'.h].root) =>
         (~last'.ok /\ disk' = disk /\ iffs' = iffs)]_vars

C4_Witness ==
    /\ last.op = "fork" /\ ~last.ok /\ ~last.override
    /\ last.root = Source.root
    /\ ~IsEmpty(disk[last.root])

\* What replaying the lineage of handle h onto an empty root leaves: the
\* root, every path a generation declares, a file holding a content of the
\* youngest generation that declares it, and nothing else.
Youngest(hs, gens, p) ==
    hs[gens[CHOOSE i \in DOMAIN gens :
                /\ p \in DeclaredPaths(hs[gens[i]].directory)
                /\ \A j \in DOMAIN gens :
                       p \in DeclaredPaths(hs[gens[j]].directory) => j <= i]]

ReplayOf(hs, h, tree) ==
    LET gens == Lineage(hs, h)
    IN \A p \in AllPaths :
           IF p = <<>> THEN tree[p] = IsDir
           ELSE IF \A i \in DOMAIN gens : p \notin DeclaredPaths(hs[gens[i]].directory)
           THEN tree[p] = Absent
           ELSE LET g == Youngest(hs, gens, p).directory
                IN IF p \in LeafPaths(g) THEN tree[p] \in ContentsAt(g, p)
                   ELSE tree[p] = IsDir

\* C5, as stated: reset() on a handle leaves under its root exactly what was
\* there right after the handle was built.  Taken at a reset that directly
\* follows the build, when the disk still is as the build left it, and for
\* a lineage whose specifications give every path one content.
C5_ResetRoundTrip ==
    [][(/\ last.op \in Creators /\ last.ok
        /\ last'.op = "reset" /\ last'.h = Len(iffs)
        /\ \A g \in Range(Lineage(iffs, Len(iffs))) : SinglyDeclared(iffs[g].directory)) =>
         (last'.ok /\ disk'[last'.root] = disk[last'.root])]_vars

\* C5, amended: when reset() resolves, the handle's root holds exactly what
\* the generations of its lineage declare, each file with a content of the
\* youngest generation declaring it.
C5_ResetReplaysLineage ==
    (last.op = "reset" /\ last.ok) => ReplayOf(iffs, last.h, disk[last.root])

C5_Witness ==
    /\ last.op = "reset" /\ last.ok
    /\ Source.prev # 0
    /\ \E p \in LeafPaths(iffs[Source.prev].directory) :
           p \notin DeclaredPaths(Source.directory) /\ IsFile(disk[last.root], p)

\* C6: the paths of the handle addFixtures returns have the keys of the old
\* handle's paths and the keys extra declares; a key extra does not declare
\* keeps its old value, a key extra declares has the value getPaths gives.
C6_AddFixturesPathAdditive ==
    (last.op = "addFixtures" /\ last.ok) =>
        LET extra == DeclaredPaths(Returned.directory)
            own == getPaths(env.sep, env.unixStylePath, Returned.directory,
                            rawRootDir(Returned))
        IN /\ Keys(Returned.paths) = Keys(Source.paths) \cup extra
           /\ \A k \in Keys(Source.paths) \ extra :
                  Value(Returned.paths, k) = Value(Source.paths, k)
           /\ \A k \in extra : Value(Returned.paths, k) = Value(own, k)

C6_Witness ==
    /\ last.op = "addFixtures" /\ last.ok
    /\ Keys(Source.paths) \ DeclaredPaths(Returned.directory) # {}
    /\ Keys(Source.paths) \cap DeclaredPaths(Returned.directory) # {}
    /\ DeclaredPaths(Returned.directory) \ Keys(Source.paths) # {}

\* C7: addFixtures(extra) leaves every path under the root that extra does
\* not declare as it was: same existence, same content.  Stated for a
\* lineage whose specifications give every path one content.
C7_AddFixturesWritesOnlyExtra ==
    [][(/\ last'.op = "addFixtures" /\ last'.ok
        /\ \A g \in Range(Lineage(iffs', Len(iffs'))) : SinglyDeclared(iffs'[g].directory)) =>
         \A p \in AllPaths \ ({<<>>} \cup DeclaredPaths(iffs'[Len(iffs')].directory)) :
             disk'[last'.root][p] = disk[last'.root][p]]_vars

\* C8: an operation invokes generateRootDir once when it is a createIFF or
\* a fork called without overrideRootDir, and not at all otherwise.
C8_GenerateRootDirOncePerFreshRoot ==
    generateRootDirCalls =
        IF last.op \in {"createIFF", "fork"} /\ ~last.override THEN 1 ELSE 0

C8_Witness ==
    /\ last.op = "fork" /\ last.ok /\ ~last.override
    /\ generateRootDirCalls = 1

RECURSIVE DeclaredOrder(_, _)
RECURSIVE DeclaredOrderFrom(_, _)
DeclaredOrderFrom(entries, prefix) ==
    IF entries = <<>> THEN <<>>
    ELSE LET e == Head(entries)
         IN [n \in 1..Len(e.key) |-> prefix \o SubSeq(e.key, 1, n)]
            \o (IF e.item.type = "dir" THEN DeclaredOrder(e.item, prefix \o e.key) ELSE <<>>)
            \o DeclaredOrderFrom(Tail(entries), prefix)

DeclaredOrder(node, prefix) == DeclaredOrderFrom(node.entries, prefix)

RECURSIVE FirstOccurrences(_)
FirstOccurrences(seq) ==
    IF seq = <<>> THEN <<>>
    ELSE LET front == FirstOccurrences(SubSeq(seq, 1, Len(seq) - 1))
             x == seq[Len(seq)]
         IN IF x \in Range(front) THEN front ELSE Append(front, x)

\* C10: the paths of a handle created from a specification have one key for
\* every file leaf, directory node and implied intermediate directory and
\* no other, in the declared order, every parent before its descendants.
C10_PathsFlattenSpecification ==
    \A h \in Handles :
        iffs[h].prev = 0 =>
            LET ks == TableKeys(iffs[h].paths)
            IN /\ Range(ks) = DeclaredPaths(iffs[h].directory)
               /\ \A i, j \in DOMAIN ks : ks[i] = ks[j] => i = j
               /\ \A i \in DOMAIN ks :
                      Len(ks[i]) > 1 => \E j \in 1..(i - 1) : ks[j] = Parent(ks[i])
               /\ ks = FirstOccurrences(DeclaredOrder(iffs[h].directory, <<>>))

C10_Witness ==
    \E h \in Handles :
        /\ iffs[h].prev = 0
        /\ TableKeys(iffs[h].paths) = << <<"b">>, <<"b", "b">> >>

C12_RmFixturesEmptiesRoot ==
    /\ (last.op = "rmFixtures" /\ last.ok) =>
           (disk[last.root][<<>>] = IsDir /\ IsEmpty(disk[last.root]))
    /\ (last.op = "rmFixtures" /\ last.existed) => last.ok

\* The root held entries and the handle's lineage declares nothing: all
\* that was removed lay outside its specifications.
C12_Witness ==
    /\ last.op = "rmFixtures" /\ last.ok /\ ~last.fresh
    /\ \A g \in Range(Lineage(iffs, last.h)) : DeclaredPaths(iffs[g].directory) = {}

\* C13: rmRootDir() always resolves and leaves nothing at the root, not the
\* directory either; called when the root is already absent it changes
\* nothing on the disk.
C13_RmRootDirIdempotent ==
    [][last'.op = "rmRootDir" =>
         /\ last'.ok
         /\ disk'[last'.root] = EmptyTree
         /\ \A r \in Roots \ {last'.root} : disk'[r] = disk[r]
         /\ (disk[last'.root][<<>>] = Absent => disk' = disk)]_vars

\* rmRootDir() was called on a root that was already absent, next to
\* another root that holds files.
C13_Witness ==
    /\ last.op = "rmRootDir" /\ last.ok /\ ~last.existed
    /\ \E r \in Roots : ~IsEmpty(disk[r])

\* The stages of the operation in flight that materialize a generation.
ImplStages == {s \in DOMAIN run.stages : run.stages[s].kind = "impl"}

\* In a fork in flight: the stage of the fork's own directory and the copy.
OwnStage == Len(run.stages) - 1

CopyStage == Len(run.stages)

\* C14: in a fork, no write of a file the fork's own directory declares is
\* made before the copy of the old root into the new root has completed.
\* A write is a step in which a task of the own stage that was about to
\* write its file leaves the pool.
C14_CopyBeforeExtraWrites ==
    [][(/\ run.op = "fork" /\ run'.op = "fork" /\ run.stages # <<>>
        /\ \E i \in DOMAIN run.stages[OwnStage].pool :
               /\ run.stages[OwnStage].pool[i].node.type = "file"
               /\ run.stages[OwnStage].pool[i].pc = "write"
               /\ run'.stages[OwnStage].pool = Without(run.stages[OwnStage].pool, i)) =>
         done(run.stages[CopyStage])]_vars

\* C15: the generations are materialized one after the other, the oldest
\* first: a generation's materialization has started only when that of
\* every older generation has completed; and when writeFixtures has replayed
\* a lineage (called as such, or by reset, createIFF or addFixtures), a path
\* several generations declare is as the youngest of them declares it.
C15_ReplayOldestFirst ==
    /\ \A s, t \in ImplStages :
           (s < t /\ run.stages[t].started) => done(run.stages[s])
    /\ (/\ run.op = "idle" /\ last.ok
        /\ last.op \in {"writeFixtures", "reset", "createIFF", "addFixtures"}) =>
           LET gens == Lineage(iffs, IF last.op \in Creators THEN Len(iffs) ELSE last.h)
           IN \A p \in UNION {DeclaredPaths(iffs[g].directory) : g \in Range(gens)} :
                  LET y == Youngest(iffs, gens, p).directory
                  IN IF p \in LeafPaths(y)
                     THEN disk[last.root][p] \in ContentsAt(y, p)
                     ELSE disk[last.root][p] = IsDir

\* writeFixtures() has replayed two generations that give one file
\* different contents.
C15_Witness ==
    /\ run.op = "idle" /\ last.op = "writeFixtures" /\ last.ok
    /\ Source.prev # 0
    /\ \E p \in LeafPaths(Source.directory) \cap LeafPaths(iffs[Source.prev].directory) :
           /\ ContentsAt(Source.directory, p) \cap ContentsAt(iffs[Source.prev].directory, p) = {}
           /\ disk[last.root][p] \in ContentsAt(Source.directory, p)

\* C16: whatever the interleaving, a task is pending only under directories
\* that have been made: the root of the materialization for every task
\* below it, and the parent of a file for a task about to write it.
C16_ParentBeforeChild ==
    \A s \in ImplStages :
        \A i \in DOMAIN run.stages[s].pool :
            LET task == run.stages[s].pool[i]
                tree == disk[run.stages[s].root]
            IN /\ task.at # <<>> => tree[<<>>] = IsDir
               /\ (task.node.type = "file" /\ task.pc = "write") =>
                      tree[Parent(task.at)] = IsDir

\* On a root that was absent or empty, a file below a directory is about to
\* be written while a sibling task is still pending.
C16_Witness ==
    /\ run.fresh
    /\ \E s \in ImplStages :
           /\ Len(run.stages[s].pool) > 1
           /\ \E i \in DOMAIN run.stages[s].pool :
                  /\ run.stages[s].pool[i].node.type = "file"
                  /\ run.stages[s].pool[i].pc = "write"
                  /\ Len(run.stages[s].pool[i].at) = 2

\* C18: writeFixtures() and reset() change nothing outside the root of the
\* handle they are called on, whatever the roots of the handle's ancestors.
C18_ReplayStaysUnderOwnRoot ==
    [][last'.op \in {"writeFixtures", "reset"} =>
         \A r \in Roots \ {last'.root} : disk'[r] = disk[r]]_vars

\* A forked handle was reset: its lineage has a generation made on another
\* root, which declares files and holds some.
C18_Witness ==
    /\ last.op = "reset" /\ last.ok
    /\ Source.prev # 0 /\ iffs[Source.prev].root # Source.root
    /\ LeafPaths(iffs[Source.prev].directory) # {}
    /\ ~IsEmpty(disk[iffs[Source.prev].root])
    /\ ~IsEmpty(disk[Source.root])

\* C19: when h.fork(extra) resolves into a root that was absent or empty,
\* every file under the new root was under h's root when fork was called,
\* or is declared by extra.
C19_ForkHoldsOnlyCopiedAndExtra ==
    [][(last'.op = "fork" /\ last'.ok /\ last'.fresh) =>
         \A p \in AllPaths :
             IsFile(disk'[last'.root], p) =>
                 \/ IsFile(disk[iffs[last'.h].root], p)
                 \/ p \in LeafPaths(iffs'[Len(iffs')].directory)]_vars

\* Under every interleaving of its tasks, the materialization of directory
\* onto tree leaves after and succeeds as ok tells.
OnlyOutcome(directory, tree, after, ok) ==
    \A o \in createIFFImpl(directory, tree) : o.tree = after /\ o.ok = ok

C21_RmFixturesFailsOnAbsentRoot ==
    [][/\ (last'.op = "rmFixtures" /\ disk[last'.root][<<>>] = Absent) =>
              (~last'.ok /\ disk' = disk)
       /\ (last'.op = "rmRootDir" /\ disk[last'.root][<<>>] = Absent) =>
              last'.ok]_vars

\* rmFixtures() has failed on an absent root, next to a root that holds
\* files.
C21_Witness ==
    /\ last.op = "rmFixtures" /\ ~last.ok /\ ~last.existed
    /\ disk[last.root][<<>>] = Absent
    /\ \E r \in Roots : ~IsEmpty(disk[r])

====
